---- MODULE Spec2Model ----
(***************************************************************************)
(* Model of the YAML-configured configuration generator of                 *)
(* src/config_generator/main.go (the second `package main` of that file,   *)
(* lines 343-717): inventory adapter, server-pool synthesis, round-robin   *)
(* binding allocation and the final write.                                 *)
(*                                                                         *)
(* Text is modelled as a sequence of atoms.  A label atom (ModelHelmet,    *)
(* ...) stands for the whole Chinese label of lines 387-396, Sep for the   *)
(* delimiter of line 468, Space for one blank and Unknown for a piece of   *)
(* text outside the vocabulary.  Two label atoms that are not separated by *)
(* Sep form one longer text, which is no label.                            *)
(*                                                                         *)
(* Timestamps (time.Now) are left out of the records: no operation reads   *)
(* them.  GenerateUUID is a counter that never repeats, also from one run  *)
(* of the program to the next.                                             *)
(***************************************************************************)
EXTENDS Integers, Sequences, FiniteSets, Bags, TLC

\* ------------------------------------------------------------------ bounds
MaxRows == 2
MaxA == 2
MaxB == 1

\* --------------------------------------------------------------- vocabulary
ModelHelmet == "ModelHelmet"
ModelMouse == "ModelMouse"
ModelShortSleeve == "ModelShortSleeve"
ModelPonding == "ModelPonding"
ModelFall == "ModelFall"
ModelSafetyBelt == "ModelSafetyBelt"
ModelCigar == "ModelCigar"
ModelGesture == "ModelGesture"
ModelSmoke == "ModelSmoke"
ModelFire == "ModelFire"

Sep == "Sep"
Space == "Space"
Unknown == "Unknown"

convertNamesToUrl(m) ==
    CASE m = <<ModelHelmet>> -> "helmet"
      [] m = <<ModelMouse>> -> "mouse"
      [] m = <<ModelShortSleeve>> -> "tshirt"
      [] m = <<ModelPonding>> -> "ponding"
      [] m = <<ModelFall>> -> "fall"
      [] m = <<ModelSafetyBelt>> -> "safetybelt"
      [] m = <<ModelCigar>> -> "cigar"
      [] m = <<ModelGesture>> -> "gesture"
      [] m = <<ModelSmoke>> -> "smoke"
      [] m = <<ModelFire>> -> "fire"
      [] OTHER -> ""

defaultModels == <<"cigar", "gesture", "smoke", "fire">>

aServerModelTypes ==
    <<"mouse", "ponding", "cigar", "gesture", "fall", "tshirt", "helmet", "smoke", "fire">>

\* ------------------------------------------------------------ text helpers
Range(s) == {s[k] : k \in DOMAIN s}

Tail0(s, k) == SubSeq(s, k + 1, Len(s))

\* strings.Split(s, Sep): the pieces of s between the delimiters.
RECURSIVE Split(_)
Split(s) ==
    IF Sep \notin Range(s)
    THEN <<s>>
    ELSE LET k == CHOOSE j \in DOMAIN s : s[j] = Sep /\ \A h \in 1..(j - 1) : s[h] # Sep
         IN  <<SubSeq(s, 1, k - 1)>> \o Split(Tail0(s, k))

\* strings.TrimSpace(s): s without its leading and trailing blanks.
RECURSIVE TrimSpace(_)
TrimSpace(s) ==
    IF s = <<>> THEN s
    ELSE IF s[1] = Space THEN TrimSpace(Tail(s))
    ELSE IF s[Len(s)] = Space THEN TrimSpace(SubSeq(s, 1, Len(s) - 1))
    ELSE s

\* ------------------------------------------------------- inventory adapter
\* Lines 467-477: what the explicit labels of one capability field append.
RECURSIVE ExplicitModelsOf(_)
ExplicitModelsOf(modelList) ==
    IF modelList = <<>> THEN <<>>
    ELSE LET m == TrimSpace(Head(modelList))
         IN  (IF m # <<>> THEN <<convertNamesToUrl(m)>> ELSE <<>>)
             \o ExplicitModelsOf(Tail(modelList))

ExplicitModels(modelsStr) ==
    IF modelsStr # <<>> THEN ExplicitModelsOf(Split(modelsStr)) ELSE <<>>

\* Lines 479-483: the defaults the explicit labels did not mark in modelMap.
MissingDefaults(explicit) ==
    SelectSeq(defaultModels, LAMBDA dm : dm \notin Range(explicit))

\* Lines 464-483: the Models of one row.
RowModels(modelsStr) ==
    LET explicit == ExplicitModels(modelsStr)
    IN  explicit \o MissingDefaults(explicit)

\* Lines 448-462: the rows the loop does not skip.
RowKept(sheet, k) ==
    /\ k # 1
    /\ Len(sheet[k]) >= 12
    /\ sheet[k][8] # ""
    /\ sheet[k][11] # ""

CameraInfo(row) ==
    [DeviceName |-> row[8], RtspURL |-> row[11], Models |-> RowModels(row[12])]

RECURSIVE CamerasFrom(_, _)
CamerasFrom(sheet, k) ==
    IF k > Len(sheet) THEN <<>>
    ELSE (IF RowKept(sheet, k) THEN <<CameraInfo(sheet[k])>> ELSE <<>>)
         \o CamerasFrom(sheet, k + 1)

ReadCameraInfoFromExcel(sheet) == CamerasFrom(sheet, 1)

\* The filter left out: every camera passes.
FilterNothing(cameras, filterList) == cameras

\* Lines 504-517: the cameras whose name is not in the filter list.
FilterCameras(cameras, filterList) ==
    SelectSeq(cameras, LAMBDA c : c.DeviceName \notin Range(filterList))

\* Lines 497-518; a sheet that cannot be read gives nil.
readCamerasFromFile(readable, sheet, filterList) ==
    IF ~readable THEN <<>>
    ELSE FilterCameras(ReadCameraInfoFromExcel(sheet), filterList)

\* ---------------------------------------------------------------- inputs
\* A sheet row is a sequence of cells; cell 8 is the device name, cell 11 the
\* stream address and cell 12 the capability field (lines 456-458).
Row(deviceName, rtspURL, modelsStr) ==
    <<"c1", "c2", "c3", "c4", "c5", "c6", "c7", deviceName, "c9", "c10", rtspURL, modelsStr>>

ShortRow == <<"c1", "c2", "c3", "c4", "c5", "c6", "c7", "camB", "c9", "c10", "rtsp">>

\* The first row: the column titles, a row of twelve non-empty cells.
HeaderRow == Row("name", "address", <<Unknown>>)

\* The rows a sheet is made of: the three kinds the loop skips, a row of the
\* camera the exclusion list names, and rows of another camera whose capability
\* field is empty, is unrecognized, or repeats a default label next to a blank
\* piece and a label with a blank before it.
RowValues ==
    { ShortRow,
      Row("", "rtsp", <<ModelHelmet>>),
      Row("camB", "", <<ModelHelmet>>),
      Row("camA", "rtsp", <<ModelHelmet, Sep, ModelSafetyBelt>>),
      Row("camB", "rtsp", <<>>),
      Row("camB", "rtsp", <<Unknown>>),
      Row("camB", "rtsp", <<ModelCigar, Sep, ModelCigar, Sep, Space, ModelSafetyBelt, Sep>>) }

SeqsUpTo(S, n) == UNION {[1..k -> S] : k \in 0..n}

\* A sheet is empty, or the header and up to MaxRows rows.
Sheets == {<<>>} \cup {<<HeaderRow>> \o body : body \in SeqsUpTo(RowValues, MaxRows)}

AddrsA == <<"a1", "a2", "a3", "a4">>
AddrsB == <<"b1", "b2", "b3">>

Prefix(s, n) == SubSeq(s, 1, n)

\* The type-A lists: up to MaxA distinct addresses, or one address twice.
PoolsA == {Prefix(AddrsA, n) : n \in 0..MaxA} \cup {<<AddrsA[1], AddrsA[1]>>}

\* The type-B lists: up to MaxB distinct addresses, or the first type-A address.
PoolsB == {Prefix(AddrsB, n) : n \in 0..MaxB} \cup {<<AddrsA[1]>>}

FilterLists == {<<"camA">>}

Configs == [Tianwan1 : PoolsA, Tianwan2 : PoolsB, FilterMap : FilterLists]

\* ----------------------------------------------------------------- state
VARIABLES
    config,               \* the content of config.yaml
    excelOk,              \* whether the inventory file can be read
    rows,                 \* the rows of the inventory sheet
    pc,                   \* where main is
    InferenceServers,     \* serverConfig.InferenceServers
    allAvailableServers,  \* address -> the servers synthesized for it
    i,                    \* index of the address loops (1-based)
    camList,              \* what readCamerasFromFile returned
    ci,                   \* index of the camera loop (1-based)
    camera,               \* the camera being built
    mi,                   \* index of the loop over c.Models (1-based)
    ia,                   \* type-A cursor
    ib,                   \* type-B cursor
    Cameras,              \* serverConfig.Cameras
    camOrder,             \* the ids of Cameras in the order line 701 stored them
    uuid,                 \* number of identifiers GenerateUUID has handed out
    outFile,              \* the output file: <<>> or one document
    prev,                 \* <<>>, or the camOrder the first run ended with
    availableAServerIds,  \* hard-coded variant: the flat list of type-A server ids
    availableBServerIds,  \* hard-coded variant: the flat list of type-B server ids
    cleaned               \* what was deleted from the sheet before the second run

inputs == <<config, excelOk, rows>>
vars ==
    <<config, excelOk, rows, pc, InferenceServers, allAvailableServers, i, camList, ci,
      camera, mi, ia, ib, Cameras, camOrder, uuid, outFile, prev,
      availableAServerIds, availableBServerIds, cleaned>>

EmptyMap == [x \in {} |-> x]
NotCleaned == [header |-> "none", deleted |-> {}]
NoId == <<>>
NoCamera == [ID |-> NoId, Name |-> "", RTSPUrl |-> "", InferenceServerBindings |-> <<>>]

Init ==
    /\ config \in Configs
    /\ \/ excelOk = TRUE /\ rows \in Sheets
       \/ excelOk = FALSE /\ rows = <<>>
    /\ pc = "load"
    /\ InferenceServers = EmptyMap
    /\ allAvailableServers = EmptyMap
    /\ i = 1
    /\ camList = <<>>
    /\ ci = 1
    /\ camera = NoCamera
    /\ mi = 1
    /\ ia = 0
    /\ ib = 0
    /\ Cameras = EmptyMap
    /\ camOrder = <<>>
    /\ uuid = 0
    /\ outFile = <<>>
    /\ prev = <<>>
    /\ availableAServerIds = <<>>
    /\ availableBServerIds = <<>>
    /\ cleaned = NotCleaned

\* ------------------------------------------------------ server synthesis
\* Line 623/651: fmt.Sprintf("inf_%s_%s", t, GenerateUUID()); n is the uuid.
ServerId(t, n) == <<"inf", t, n>>

\* Line 672: fmt.Sprintf("cam_%s", GenerateUUID()).
CameraId(n) == <<"cam", n>>

\* Every capability served under its own path.
ModelUrlPlain(t) == t

\* Lines 626-629: fire is served under the path of smoke.
ModelUrl(t) == IF t = "fire" THEN "smoke" ELSE t

\* Lines 630-638: the record of the server of type t at the k-th address addr.
InferenceServer(id, t, k, addr) ==
    [ID |-> id, Name |-> <<t, k>>, URL |-> [addr |-> addr, path |-> ModelUrl(t)],
     ModelType |-> t, Enabled |-> TRUE]

\* Lines 652-660: the safetybelt server of the k-th type-B address addr.
SafetyBeltServer(id, k, addr) ==
    [ID |-> id, Name |-> <<"safetybelt", k>>, URL |-> [addr |-> addr, path |-> "safetybelt"],
     ModelType |-> "safetybelt", Enabled |-> TRUE]

AvailableServer(id, t) == [ID |-> id, modelType |-> t]

\* m[key] = value on a Go map.
Put(m, key, value) ==
    [x \in DOMAIN m \cup {key} |-> IF x = key THEN value ELSE m[x]]

\* Lines 574-581.
findAvailableServerId(servers, modelType) ==
    IF \E k \in DOMAIN servers : servers[k].modelType = modelType
    THEN LET k == CHOOSE j \in DOMAIN servers :
                      /\ servers[j].modelType = modelType
                      /\ \A h \in 1..(j - 1) : servers[h].modelType # modelType
         IN  servers[k].ID
    ELSE NoId

\* --------------------------------------------------------------- allocator
DefaultThreshold == 5      \* 0.5, in tenths
DefaultMaxThreshold == 0   \* 0 means no upper limit

\* Lines 689/693: safetybelt is served by the type-B pool, the rest by type A.
IsTypeB(m) == m = "safetybelt"

\* Every capability served from the type-A pool.
PoolOfAlwaysA(cfg, m) == cfg.Tianwan1

PoolOf(cfg, m) == IF IsTypeB(m) THEN cfg.Tianwan2 ELSE cfg.Tianwan1

\* The cursor stepping over every other address.
NextCursorSkip(cur, n) == (cur + 2) % n

\* The cursor moved by an amount that differs from run to run.
NextCursorRandom(cur, n) == (cur + 1 + uuid) % n

\* Lines 692/697: the cursor after one allocation from a pool of n addresses.
NextCursor(cur, n) == (cur + 1) % n

\* Where main goes once the loop over the type-A addresses has handled k - 1
\* of them, and the same for the later loops.
AfterA(k) ==
    IF k <= Len(config.Tianwan1) THEN "synthA"
    ELSE IF Len(config.Tianwan2) >= 1 THEN "synthB" ELSE "read"

AfterB(k) == IF k <= Len(config.Tianwan2) THEN "synthB" ELSE "read"

AfterCamera(list, k) == IF k <= Len(list) THEN "camera" ELSE "write"

\* ----------------------------------------------------------------- actions
\* Lines 590-604: the configuration is loaded, or main logs and returns.
LoadConfig ==
    /\ pc = "load"
    /\ \/ pc' = AfterA(1)
       \/ pc' = "failed"
    /\ UNCHANGED <<config, excelOk, rows, InferenceServers, allAvailableServers, i, camList,
                   ci, camera, mi, ia, ib, Cameras, camOrder, uuid, outFile, prev,
                   availableAServerIds, availableBServerIds, cleaned>>

\* Lines 620-645: one type-A address, all of its nine servers.
SynthA ==
    /\ pc = "synthA"
    /\ LET addr == config.Tianwan1[i]
           n == Len(aServerModelTypes)
           id(k) == ServerId(aServerModelTypes[k], uuid + k)
           new == {id(k) : k \in 1..n}
       IN  /\ InferenceServers' =
                 [x \in DOMAIN InferenceServers \cup new |->
                     IF x \in new
                     THEN LET k == CHOOSE j \in 1..n : id(j) = x
                          IN  InferenceServer(x, aServerModelTypes[k], i, addr)
                     ELSE InferenceServers[x]]
           /\ allAvailableServers' =
                 Put(allAvailableServers, addr,
                     [k \in 1..n |-> AvailableServer(id(k), aServerModelTypes[k])])
           /\ uuid' = uuid + n
    /\ i' = IF AfterA(i + 1) = "synthA" THEN i + 1 ELSE 1
    /\ pc' = AfterA(i + 1)
    /\ UNCHANGED <<config, excelOk, rows, camList, ci, camera, mi, ia, ib, Cameras, camOrder,
                   outFile, prev,
                   availableAServerIds, availableBServerIds, cleaned>>

\* Lines 647-666: one type-B address and its safetybelt server.
SynthB ==
    /\ pc = "synthB"
    /\ LET addr == config.Tianwan2[i]
           id == ServerId("safetybelt", uuid + 1)
       IN  /\ InferenceServers' = Put(InferenceServers, id, SafetyBeltServer(id, i, addr))
           /\ allAvailableServers' =
                 Put(allAvailableServers, addr, <<AvailableServer(id, "safetybelt")>>)
           /\ uuid' = uuid + 1
    /\ i' = IF AfterB(i + 1) = "synthB" THEN i + 1 ELSE 1
    /\ pc' = AfterB(i + 1)
    /\ UNCHANGED <<config, excelOk, rows, camList, ci, camera, mi, ia, ib, Cameras, camOrder,
                   outFile, prev,
                   availableAServerIds, availableBServerIds, cleaned>>

\* Lines 669-670: the cursors start at 0 and the inventory is read and filtered.
ReadCameras ==
    /\ pc = "read"
    /\ camList' = readCamerasFromFile(excelOk, rows, config.FilterMap)
    /\ ia' = 0
    /\ ib' = 0
    /\ ci' = 1
    /\ pc' = AfterCamera(camList', 1)
    /\ UNCHANGED <<config, excelOk, rows, InferenceServers, allAvailableServers, i, camera,
                   mi, Cameras, camOrder, uuid, outFile, prev,
                   availableAServerIds, availableBServerIds, cleaned>>

\* Lines 671-681: the record of the next camera, without bindings yet.
NewCamera ==
    /\ pc = "camera"
    /\ camera' = [ID |-> CameraId(uuid + 1), Name |-> camList[ci].DeviceName,
                  RTSPUrl |-> camList[ci].RtspURL, InferenceServerBindings |-> <<>>]
    /\ uuid' = uuid + 1
    /\ mi' = 1
    /\ pc' = IF camList[ci].Models = <<>> THEN "store" ELSE "bind"
    /\ UNCHANGED <<config, excelOk, rows, InferenceServers, allAvailableServers, i, camList,
                   ci, ia, ib, Cameras, camOrder, outFile, prev,
                   availableAServerIds, availableBServerIds, cleaned>>

\* Lines 683-700: one capability of the camera.  Indexing an empty pool is a
\* run-time panic (index out of range), which ends the process.
Bind ==
    /\ pc = "bind"
    /\ LET m == camList[ci].Models[mi]
           pool == PoolOf(config, m)
           cur == IF IsTypeB(m) THEN ib ELSE ia
       IN  IF cur >= Len(pool)
           THEN /\ pc' = "panic"
                /\ UNCHANGED <<camera, mi, ia, ib>>
           ELSE LET ip == pool[cur + 1]
                    binding == [ServerID |-> findAvailableServerId(allAvailableServers[ip], m),
                                Threshold |-> DefaultThreshold,
                                MaxThreshold |-> DefaultMaxThreshold]
                IN  /\ camera' = [camera EXCEPT !.InferenceServerBindings = Append(@, binding)]
                    /\ ib' = IF IsTypeB(m) THEN NextCursor(ib, Len(pool)) ELSE ib
                    /\ ia' = IF IsTypeB(m) THEN ia ELSE NextCursor(ia, Len(pool))
                    /\ mi' = mi + 1
                    /\ pc' = IF mi + 1 <= Len(camList[ci].Models) THEN "bind" ELSE "store"
    /\ UNCHANGED <<config, excelOk, rows, InferenceServers, allAvailableServers, i, camList,
                   ci, Cameras, camOrder, uuid, outFile, prev,
                   availableAServerIds, availableBServerIds, cleaned>>

\* Line 701: the camera goes into the data store.
StoreCamera ==
    /\ pc = "store"
    /\ Cameras' = Put(Cameras, camera.ID, camera)
    /\ camOrder' = Append(camOrder, camera.ID)
    /\ camera' = NoCamera
    /\ mi' = 1
    /\ ci' = ci + 1
    /\ pc' = AfterCamera(camList, ci + 1)
    /\ UNCHANGED <<config, excelOk, rows, InferenceServers, allAvailableServers, i, camList,
                   ia, ib, uuid, outFile, prev,
                   availableAServerIds, availableBServerIds, cleaned>>

Document == [complete |-> TRUE, cameras |-> Cameras, inference_servers |-> InferenceServers]
Truncated == [complete |-> FALSE, cameras |-> EmptyMap, inference_servers |-> EmptyMap]

\* Lines 704-716: the data store is written.  os.WriteFile fails before it
\* opens the file (the file stays as it was) or after it truncated it.
WriteFile ==
    /\ pc = "write"
    /\ \/ pc' = "done" /\ outFile' = <<Document>>
       \/ pc' = "failed" /\ outFile' = outFile
       \/ pc' = "failed" /\ outFile' = <<Truncated>>
    /\ UNCHANGED <<config, excelOk, rows, InferenceServers, allAvailableServers, i, camList,
                   ci, camera, mi, ia, ib, Cameras, camOrder, uuid, prev,
                   availableAServerIds, availableBServerIds, cleaned>>

\* The program is run a second time on the same input, after a run that wrote
\* its file.
Restart ==
    /\ pc = "done"
    /\ prev = <<>>
    /\ prev' = <<camOrder>>
    /\ pc' = "load"
    /\ InferenceServers' = EmptyMap
    /\ allAvailableServers' = EmptyMap
    /\ i' = 1
    /\ camList' = <<>>
    /\ ci' = 1
    /\ camera' = NoCamera
    /\ mi' = 1
    /\ ia' = 0
    /\ ib' = 0
    /\ Cameras' = EmptyMap
    /\ camOrder' = <<>>
    /\ UNCHANGED <<config, excelOk, rows, uuid, outFile,
                   availableAServerIds, availableBServerIds, cleaned>>

Next ==
    \/ LoadConfig
    \/ SynthA
    \/ SynthB
    \/ ReadCameras
    \/ NewCamera
    \/ Bind
    \/ StoreCamera
    \/ WriteFile
    \/ Restart

Spec == Init /\ [][Next]_vars

TypeOK ==
    /\ pc \in {"load", "synthA", "synthB", "read", "camera", "bind", "store", "write",
               "done", "failed", "panic"}
    /\ ia \in Nat /\ ib \in Nat
    /\ Len(prev) <= 1

\* ------------------------------------------- the hard-coded variant of main
\* The first program of main.go (lines 207-341) has its addresses and its
\* exclusion list compiled in, and allocates from two flat lists of server
\* ids.  The camera record, the store of a camera and the write of the file
\* are the code of NewCamera, StoreCamera and WriteFile.
availableAServerAddrs ==
    <<"192.168.1.86:8901", "192.168.1.86:8902", "192.168.1.86:8903", "192.168.1.86:8904",
      "192.168.1.86:8905", "192.168.1.86:8906", "192.168.1.86:8907", "192.168.1.86:8908",
      "192.168.1.86:8909", "192.168.1.86:8910", "192.168.1.86:8911", "192.168.1.86:8912",
      "192.168.1.86:8913", "192.168.1.86:8914">>

availableBServerAddrs ==
    <<"192.168.1.86:8915", "192.168.1.86:8916", "192.168.1.86:8917", "192.168.1.86:8918">>

\* Lines 137-143: the names readCamerasFromFile leaves out.
filterMap == <<"5M1DTW102TV", "6M2DTW101TV", "6M2DTW104TV", "5M0DTW126TV", "5M0DTW134TV">>

HardConfig ==
    [Tianwan1 |-> availableAServerAddrs, Tianwan2 |-> availableBServerAddrs,
     FilterMap |-> filterMap]

InitHard ==
    /\ config = HardConfig
    /\ \/ excelOk = TRUE /\ rows \in Sheets
       \/ excelOk = FALSE /\ rows = <<>>
    /\ pc = "synthA"
    /\ InferenceServers = EmptyMap
    /\ allAvailableServers = EmptyMap
    /\ i = 1
    /\ camList = <<>>
    /\ ci = 1
    /\ camera = NoCamera
    /\ mi = 1
    /\ ia = 0
    /\ ib = 0
    /\ Cameras = EmptyMap
    /\ camOrder = <<>>
    /\ uuid = 0
    /\ outFile = <<>>
    /\ prev = <<>>
    /\ availableAServerIds = <<>>
    /\ availableBServerIds = <<>>
    /\ cleaned = NotCleaned

\* Lines 255-276: one type-A address; the ids of its nine servers are appended
\* to the flat list in the order of aServerModelTypes.
HardSynthA ==
    /\ pc = "synthA"
    /\ LET addr == availableAServerAddrs[i]
           n == Len(aServerModelTypes)
           id(k) == ServerId(aServerModelTypes[k], uuid + k)
           new == {id(k) : k \in 1..n}
       IN  /\ InferenceServers' =
                 [x \in DOMAIN InferenceServers \cup new |->
                     IF x \in new
                     THEN LET k == CHOOSE j \in 1..n : id(j) = x
                          IN  InferenceServer(x, aServerModelTypes[k], i, addr)
                     ELSE InferenceServers[x]]
           /\ availableAServerIds' = availableAServerIds \o [k \in 1..n |-> id(k)]
           /\ uuid' = uuid + n
    /\ i' = IF i + 1 <= Len(availableAServerAddrs) THEN i + 1 ELSE 1
    /\ pc' = IF i + 1 <= Len(availableAServerAddrs) THEN "synthA" ELSE "synthB"
    /\ UNCHANGED <<config, excelOk, rows, allAvailableServers, camList, ci, camera, mi, ia,
                   ib, Cameras, camOrder, outFile, prev, availableBServerIds, cleaned>>

\* Lines 278-292: one type-B address and its safetybelt server.
HardSynthB ==
    /\ pc = "synthB"
    /\ LET addr == availableBServerAddrs[i]
           id == ServerId("safetybelt", uuid + 1)
       IN  /\ InferenceServers' = Put(InferenceServers, id, SafetyBeltServer(id, i, addr))
           /\ availableBServerIds' = Append(availableBServerIds, id)
           /\ uuid' = uuid + 1
    /\ i' = IF i + 1 <= Len(availableBServerAddrs) THEN i + 1 ELSE 1
    /\ pc' = IF i + 1 <= Len(availableBServerAddrs) THEN "synthB" ELSE "read"
    /\ UNCHANGED <<config, excelOk, rows, allAvailableServers, camList, ci, camera, mi, ia,
                   ib, Cameras, camOrder, outFile, prev, availableAServerIds, cleaned>>

\* Lines 295-296 and 130-153: the cursors start at 0; the inventory is read
\* (an unreadable file is logged and gives no camera) and filtered.
HardReadCameras ==
    /\ pc = "read"
    /\ camList' = readCamerasFromFile(excelOk, rows, filterMap)
    /\ ia' = 0
    /\ ib' = 0
    /\ ci' = 1
    /\ pc' = AfterCamera(camList', 1)
    /\ UNCHANGED <<config, excelOk, rows, InferenceServers, allAvailableServers, i, camera,
                   mi, Cameras, camOrder, uuid, outFile, prev,
                   availableAServerIds, availableBServerIds, cleaned>>

\* Lines 310-326: one capability of the camera takes the id under the cursor
\* of its flat list, whatever the model type of that server.
HardBind ==
    /\ pc = "bind"
    /\ LET m == camList[ci].Models[mi]
           ids == IF IsTypeB(m) THEN availableBServerIds ELSE availableAServerIds
           cur == IF IsTypeB(m) THEN ib ELSE ia
           binding == [ServerID |-> ids[cur + 1],
                       Threshold |-> DefaultThreshold,
                       MaxThreshold |-> DefaultMaxThreshold]
       IN  /\ camera' = [camera EXCEPT !.InferenceServerBindings = Append(@, binding)]
           /\ ib' = IF IsTypeB(m) THEN NextCursor(ib, Len(ids)) ELSE ib
           /\ ia' = IF IsTypeB(m) THEN ia ELSE NextCursor(ia, Len(ids))
           /\ mi' = mi + 1
           /\ pc' = IF mi + 1 <= Len(camList[ci].Models) THEN "bind" ELSE "store"
    /\ UNCHANGED <<config, excelOk, rows, InferenceServers, allAvailableServers, i, camList,
                   ci, Cameras, camOrder, uuid, outFile, prev,
                   availableAServerIds, availableBServerIds, cleaned>>

NextHard ==
    \/ HardSynthA
    \/ HardSynthB
    \/ HardReadCameras
    \/ NewCamera
    \/ HardBind
    \/ StoreCamera
    \/ WriteFile

SpecHard == InitHard /\ [][NextHard]_vars

\* ------------------------------------------- a second run on a cleaned sheet
\* The sheet with the rows deleted that give no stored camera: the rows the
\* reader skips as malformed (lines 452-462) and the rows whose name is in the
\* filter list (lines 510-514); the first row is kept or deleted as asked.
KeptRows(sheet, filterList, keepHeader) ==
    SelectSeq([k \in 1..Len(sheet) |-> k],
              LAMBDA k : \/ k = 1 /\ keepHeader
                         \/ /\ RowKept(sheet, k)
                            /\ sheet[k][8] \notin Range(filterList))

CleanedSheet(sheet, filterList, keepHeader) ==
    LET kept == KeptRows(sheet, filterList, keepHeader)
    IN  [j \in 1..Len(kept) |-> sheet[kept[j]]]

\* The program is run a second time, after a run that wrote its file, on the
\* cleaned sheet.
RestartCleaned ==
    /\ pc = "done"
    /\ prev = <<>>
    /\ \E keepHeader \in BOOLEAN :
           /\ rows' = CleanedSheet(rows, config.FilterMap, keepHeader)
           /\ cleaned' =
                  [header |-> IF keepHeader THEN "kept" ELSE "deleted",
                   deleted |-> (1..Len(rows)) \
                                   Range(KeptRows(rows, config.FilterMap, keepHeader))]
    /\ prev' = <<camOrder>>
    /\ pc' = "load"
    /\ InferenceServers' = EmptyMap
    /\ allAvailableServers' = EmptyMap
    /\ i' = 1
    /\ camList' = <<>>
    /\ ci' = 1
    /\ camera' = NoCamera
    /\ mi' = 1
    /\ ia' = 0
    /\ ib' = 0
    /\ Cameras' = EmptyMap
    /\ camOrder' = <<>>
    /\ UNCHANGED <<config, excelOk, uuid, outFile, availableAServerIds, availableBServerIds>>

NextClean ==
    \/ LoadConfig
    \/ SynthA
    \/ SynthB
    \/ ReadCameras
    \/ NewCamera
    \/ Bind
    \/ StoreCamera
    \/ WriteFile
    \/ RestartCleaned

SpecClean == Init /\ [][NextClean]_vars

\* ------------------------------------------------- vocabulary of the claims
Capabilities == Range(aServerModelTypes) \cup {"safetybelt"}

NoRepeats(s) == \A j, k \in DOMAIN s : s[j] = s[k] => j = k

Count(s, x) == Cardinality({k \in DOMAIN s : s[k] = x})

PoolsWellFormed ==
    /\ config.Tianwan1 # <<>>
    /\ config.Tianwan2 # <<>>
    /\ NoRepeats(config.Tianwan1)
    /\ NoRepeats(config.Tianwan2)
    /\ Range(config.Tianwan1) \cap Range(config.Tianwan2) = {}

\* The sheet rows behind camList, in order: the index of the row of camera k.
SurvivingRows ==
    IF ~excelOk THEN <<>>
    ELSE SelectSeq([k \in 1..Len(rows) |-> k],
                   LAMBDA k : RowKept(rows, k) /\ rows[k][8] \notin Range(config.FilterMap))

\* The cameras a complete run stores, from the inputs alone.
Surviving == readCamerasFromFile(excelOk, rows, config.FilterMap)

\* The pieces of a capability field, trimmed, blanks dropped.
Labels(modelsStr) ==
    SelectSeq([k \in DOMAIN Split(modelsStr) |-> TrimSpace(Split(modelsStr)[k])],
              LAMBDA piece : piece # <<>>)

Recognized(piece) == convertNamesToUrl(piece) \in Capabilities

\* The bindings of the k-th stored camera, and of the camera being built.
BindingsOf(k) == Cameras[camOrder[k]].InferenceServerBindings

Request(m, b) == [m |-> m, ServerID |-> b.ServerID]

RECURSIVE StoredRequests(_)
StoredRequests(k) ==
    IF k > Len(camOrder) THEN <<>>
    ELSE [j \in DOMAIN BindingsOf(k) |-> Request(camList[k].Models[j], BindingsOf(k)[j])]
         \o StoredRequests(k + 1)

\* Every (capability, binding) pair made so far in this run, in the order made.
Requests ==
    StoredRequests(1)
    \o [j \in DOMAIN camera.InferenceServerBindings |->
           Request(camList[ci].Models[j], camera.InferenceServerBindings[j])]

IsServer(id) == id \in DOMAIN InferenceServers

Serves(id, m) == IsServer(id) /\ InferenceServers[id].ModelType = m

At(id, addr) == IsServer(id) /\ InferenceServers[id].URL.addr = addr

\* ------------------------------------------------------------------ claims
\* C1: for every stored camera and proper pools (non-empty, duplicate-free,
\* disjoint), every capability of the camera's requirement list has exactly one
\* binding, and the server of that binding has the capability as model_type.
C1_EveryCapabilityBoundOnce ==
    PoolsWellFormed =>
        \A k \in DOMAIN camOrder :
            /\ Len(BindingsOf(k)) = Len(camList[k].Models)
            /\ \A c \in Range(camList[k].Models) :
                   Cardinality({j \in DOMAIN BindingsOf(k) : Serves(BindingsOf(k)[j].ServerID, c)}) = 1

RequestsFor(c) == SelectSeq(Requests, LAMBDA r : r.m = c)

TypeARequests == SelectSeq(Requests, LAMBDA r : ~IsTypeB(r.m))

AddrAt(pool, n) == pool[(n % Len(pool)) + 1]

\* C2 as claimed: for each type-A capability, its i-th request (0-indexed) is
\* bound to the server at type-A address index i mod N.
C2_RoundRobinPerCapability ==
    PoolsWellFormed =>
        \A c \in Range(aServerModelTypes) :
            \A n \in DOMAIN RequestsFor(c) :
                At(RequestsFor(c)[n].ServerID, AddrAt(config.Tianwan1, n - 1))

\* C2 amended: the cursor is shared by all type-A capabilities.  The i-th
\* request among all entries other than safetybelt (0-indexed) is allocated
\* type-A address index i mod N: its binding names the server of that
\* capability at that address, or no server when the address has none for it.
C2_RoundRobinPerPool ==
    config.Tianwan1 # <<>> =>
        \A n \in DOMAIN TypeARequests :
            LET r == TypeARequests[n]
                addr == AddrAt(config.Tianwan1, n - 1)
            IN  /\ r.ServerID # NoId => Serves(r.ServerID, r.m) /\ At(r.ServerID, addr)
                /\ (r.m \in Range(aServerModelTypes) /\ addr \notin Range(config.Tianwan2))
                       => r.ServerID # NoId

C2_Witness ==
    /\ pc = "done"
    /\ Len(config.Tianwan1) = 2
    /\ NoRepeats(config.Tianwan1)
    /\ Len(camOrder) = 2
    /\ \E c \in Range(aServerModelTypes) : Len(RequestsFor(c)) >= 2
    /\ ~C2_RoundRobinPerCapability

\* C3: no stored camera, and no camera of the written document, has a name of
\* the exclusion list.
C3_Exclusion ==
    /\ \A id \in DOMAIN Cameras : Cameras[id].Name \notin Range(config.FilterMap)
    /\ \A k \in DOMAIN outFile : \A id \in DOMAIN outFile[k].cameras :
           outFile[k].cameras[id].Name \notin Range(config.FilterMap)

C3_Witness ==
    /\ pc = "done"
    /\ Cameras # EmptyMap
    /\ \E k \in DOMAIN rows : RowKept(rows, k) /\ rows[k][8] \in Range(config.FilterMap)

\* The capability field of the row behind camera k of camList.
FieldOf(k) == rows[SurvivingRows[k]][12]

StoredAll == pc \in {"write", "done"}

\* C4: a camera whose capability field holds no recognized label (empty, only
\* blanks, or only labels outside the vocabulary) has exactly the four defaults
\* as its capability list, and exactly four bindings once it is stored.
C4_DefaultsOnly ==
    \A k \in DOMAIN camList :
        (\A j \in DOMAIN Labels(FieldOf(k)) : ~Recognized(Labels(FieldOf(k))[j])) =>
            /\ camList[k].Models = defaultModels
            /\ k \in DOMAIN camOrder => Len(BindingsOf(k)) = Len(defaultModels)

RecognizedLabels(modelsStr) == SelectSeq(Labels(modelsStr), Recognized)

\* C5: an unrecognized label gives no capability: the capability list is what
\* the recognized labels and the missing defaults give, every stored camera has
\* one binding per such capability, and the cursors have advanced once per such
\* capability of their pool.
C5_UnknownLabelOmitted ==
    /\ \A k \in DOMAIN camList :
           LET explicit == [j \in DOMAIN RecognizedLabels(FieldOf(k)) |->
                               convertNamesToUrl(RecognizedLabels(FieldOf(k))[j])]
           IN  /\ camList[k].Models = explicit \o MissingDefaults(explicit)
               /\ k \in DOMAIN camOrder =>
                      Len(BindingsOf(k)) = Len(explicit \o MissingDefaults(explicit))
    /\ \A n \in DOMAIN Requests : Requests[n].m \in Capabilities

\* C6: in every camera's capability list each of the four defaults occurs
\* exactly once and no capability occurs twice.
C6_DefaultsOnceNoRepeats ==
    \A k \in DOMAIN camList :
        /\ \A d \in Range(defaultModels) : Count(camList[k].Models, d) = 1
        /\ NoRepeats(camList[k].Models)

\* C7: when the inventory file cannot be read the run never reaches the write
\* step and no output file is written.
C7_ReadFailureWritesNothing ==
    ~excelOk => pc \notin {"write", "done"} /\ outFile = <<>>

NeedsA == \E k \in DOMAIN Surviving : \E m \in Range(Surviving[k].Models) : ~IsTypeB(m)

NeedsB == \E k \in DOMAIN Surviving : \E m \in Range(Surviving[k].Models) : IsTypeB(m)

PoolMissing ==
    \/ NeedsA /\ config.Tianwan1 = <<>>
    \/ NeedsB /\ config.Tianwan2 = <<>>

\* C8: when the pool needed by a capability of a surviving camera is empty the
\* run never reaches the write step and writes no file; an empty type-B pool
\* with no camera that requires safetybelt (and no type-A pool missing) never
\* ends the run in the panic.
C8_EmptyPool ==
    /\ PoolMissing => pc \notin {"write", "done"} /\ outFile = <<>>
    /\ (config.Tianwan2 = <<>> /\ ~NeedsB /\ ~PoolMissing) => pc # "panic"

C8_Witness ==
    /\ pc = "panic"
    /\ config.Tianwan2 = <<>>
    /\ config.Tianwan1 # <<>>
    /\ NeedsB
    /\ Len(Requests) >= 1

\* C9: no binding with an empty or unknown server_id is ever appended.
C9_NoEmptyServerId ==
    \A n \in DOMAIN Requests : IsServer(Requests[n].ServerID)

\* What a data store is, identifiers aside: the cameras in the order they were
\* stored, each with its ordered bindings (capability, address, thresholds),
\* and the number of servers per address and capability.
BindingShape(servers, b) ==
    [capability |-> IF b.ServerID \in DOMAIN servers THEN servers[b.ServerID].ModelType ELSE "",
     addr |-> IF b.ServerID \in DOMAIN servers THEN servers[b.ServerID].URL.addr ELSE "",
     Threshold |-> b.Threshold, MaxThreshold |-> b.MaxThreshold]

Structure(store) ==
    [cameras |->
        [k \in DOMAIN store.camOrder |->
            LET c == store.Cameras[store.camOrder[k]]
            IN  [Name |-> c.Name, RTSPUrl |-> c.RTSPUrl,
                 bindings |-> [j \in DOMAIN c.InferenceServerBindings |->
                                  BindingShape(store.InferenceServers,
                                               c.InferenceServerBindings[j])]]],
     servers |->
        {<<a, t, Cardinality({id \in DOMAIN store.InferenceServers :
                                 /\ store.InferenceServers[id].URL.addr = a
                                 /\ store.InferenceServers[id].ModelType = t})>> :
            a \in Range(AddrsA) \cup Range(AddrsB), t \in Capabilities}]

ThisRun == [Cameras |-> Cameras, camOrder |-> camOrder, InferenceServers |-> InferenceServers]

\* What the first run ended with: the document it wrote, which is the output
\* file until the second run writes, and the order it stored the cameras in.
FirstRun ==
    [Cameras |-> outFile[1].cameras, camOrder |-> prev[1],
     InferenceServers |-> outFile[1].inference_servers]

\* C10: the second run on the same input is about to write a data store of the
\* same structure as the document of the first run.
C10_SameStructure ==
    (pc = "write" /\ prev # <<>>) => Structure(ThisRun) = Structure(FirstRun)

C10_Witness ==
    /\ pc = "write"
    /\ prev # <<>>
    /\ Len(camOrder) = 2
    /\ Len(config.Tianwan1) = 2
    /\ DOMAIN Cameras \cap DOMAIN FirstRun.Cameras = {}
    /\ DOMAIN InferenceServers \cap DOMAIN FirstRun.InferenceServers = {}

\* Synthesis is over: main is at the inventory or later in the same run.
Synthesized == pc \in {"read", "camera", "bind", "store", "write", "done", "panic"}

ServersAt(addr, t) ==
    {id \in DOMAIN InferenceServers :
        InferenceServers[id].URL.addr = addr /\ InferenceServers[id].ModelType = t}

\* C11: after synthesis, whatever the address lists, there is exactly one
\* server per type-A address and type-A capability, exactly one safetybelt
\* server per type-B address, nothing else, 9 * |A| + |B| servers in all.
C11_OneServerPerPair ==
    Synthesized =>
        /\ \A a \in Range(config.Tianwan1) : \A t \in Range(aServerModelTypes) :
               Cardinality(ServersAt(a, t)) = 1
        /\ \A b \in Range(config.Tianwan2) : Cardinality(ServersAt(b, "safetybelt")) = 1
        /\ \A id \in DOMAIN InferenceServers :
               LET srv == InferenceServers[id]
               IN  \/ srv.URL.addr \in Range(config.Tianwan1)
                      /\ srv.ModelType \in Range(aServerModelTypes)
                   \/ srv.URL.addr \in Range(config.Tianwan2) /\ srv.ModelType = "safetybelt"
        /\ Cardinality(DOMAIN InferenceServers) =
               Len(aServerModelTypes) * Len(config.Tianwan1) + Len(config.Tianwan2)

\* The address list a server was synthesized from.
ListOf(srv) == IF srv.ModelType = "safetybelt" THEN config.Tianwan2 ELSE config.Tianwan1

\* C12: every server has the endpoint http://{address}/{path} with the path
\* its capability, except that fire has the path smoke and keeps the
\* model_type fire; at each type-A address the fire and the smoke server are
\* two records with one URL.
C12_FireUsesSmokePath ==
    /\ \A id \in DOMAIN InferenceServers :
           LET srv == InferenceServers[id]
           IN  /\ srv.ID = id
               /\ srv.ModelType \in Capabilities
               /\ srv.URL.path = (IF srv.ModelType = "fire" THEN "smoke" ELSE srv.ModelType)
               /\ srv.Name[1] = srv.ModelType
               /\ srv.Name[2] \in DOMAIN ListOf(srv)
               /\ srv.URL.addr = ListOf(srv)[srv.Name[2]]
    /\ Synthesized =>
           \A a \in Range(config.Tianwan1) :
               \E f \in ServersAt(a, "fire") : \E sm \in ServersAt(a, "smoke") :
                   /\ f # sm
                   /\ InferenceServers[f].URL = InferenceServers[sm].URL

C12_Witness ==
    /\ pc = "done"
    /\ Len(config.Tianwan1) = 2
    /\ Len(config.Tianwan2) = 1
    /\ \E id \in DOMAIN InferenceServers :
           InferenceServers[id].ModelType = "fire" /\ InferenceServers[id].URL.path = "smoke"

TypeBRequests == SelectSeq(Requests, LAMBDA r : IsTypeB(r.m))

\* C13: at every point of the allocation loop the cursor of each non-empty
\* pool lies in 0..poolSize-1 and equals k mod poolSize, k being the number
\* of bindings made from that pool so far in the run (it advances by one,
\* wrapping, on each such binding and at no other step).
C13_CursorInvariant ==
    /\ config.Tianwan1 # <<>> =>
           /\ ia \in 0..(Len(config.Tianwan1) - 1)
           /\ ia = Len(TypeARequests) % Len(config.Tianwan1)
    /\ config.Tianwan2 # <<>> =>
           /\ ib \in 0..(Len(config.Tianwan2) - 1)
           /\ ib = Len(TypeBRequests) % Len(config.Tianwan2)

C13_Witness ==
    /\ pc = "bind"
    /\ Len(config.Tianwan1) = 2
    /\ Len(TypeARequests) = 5
    /\ ia = 1
    /\ Len(config.Tianwan2) = 1
    /\ Len(TypeBRequests) = 1
    /\ ib = 0

\* The number of bindings made so far whose server lives at the address.
BoundAt(addr) == Cardinality({n \in DOMAIN Requests : At(Requests[n].ServerID, addr)})

\* C14: with proper pools (non-empty, duplicate-free, disjoint), after any
\* prefix of the allocation loop the numbers of bindings whose server lives
\* at two addresses of one pool differ by at most one.
C14_EvenDistribution ==
    PoolsWellFormed =>
        \A pool \in {config.Tianwan1, config.Tianwan2} :
            \A x, y \in Range(pool) : BoundAt(x) - BoundAt(y) <= 1

\* A step of the binding loop that makes a binding (the pool is not empty).
Binds == pc = "bind" /\ pc' # "panic"

\* C15: with proper pools, every step that binds a safetybelt capability
\* names a server at a type-B address and leaves the type-A cursor alone, and
\* every step that binds another capability names a server at a type-A
\* address and leaves the type-B cursor alone.
C15_PoolRouting ==
    [][(PoolsWellFormed /\ Binds) =>
          LET m == camList[ci].Models[mi]
              b == camera'.InferenceServerBindings[Len(camera'.InferenceServerBindings)]
          IN  IF IsTypeB(m)
              THEN /\ \E addr \in Range(config.Tianwan2) : At(b.ServerID, addr)
                   /\ ia' = ia
              ELSE /\ \E addr \in Range(config.Tianwan1) : At(b.ServerID, addr)
                   /\ ib' = ib]_vars

\* C16: in the hard-coded variant, the server named by every binding made so
\* far has the capability the binding was made for as its model type.
C16_ServerServesCapability ==
    \A n \in DOMAIN Requests : Serves(Requests[n].ServerID, Requests[n].m)

\* The cameras of a data store in the order stored, each with its name and
\* its ordered bindings (capability and server address).
CameraBindings(store) == Structure(store).cameras

\* C17 as claimed: the run on the sheet with the excluded rows, the malformed
\* rows and the header row deleted is about to write the same cameras with
\* the same ordered bindings as the run on the full sheet wrote.
C17_SameBindingsHeaderDeleted ==
    (pc = "write" /\ cleaned.header = "deleted") =>
        CameraBindings(ThisRun) = CameraBindings(FirstRun)

\* C17: the run on the sheet with the excluded rows and the malformed rows
\* deleted, the first row left in place, is about to write the same cameras
\* with the same ordered bindings as the run on the full sheet wrote.
C17_SameBindingsHeaderKept ==
    (pc = "write" /\ cleaned.header = "kept") =>
        CameraBindings(ThisRun) = CameraBindings(FirstRun)

\* The first data row of the full sheet was deleted, the row after it
\* survives, and the second run has stored its camera from the shorter sheet.
C17_Witness ==
    /\ pc = "write"
    /\ cleaned.header = "kept"
    /\ 2 \in cleaned.deleted
    /\ Len(rows) = 2
    /\ Len(camOrder) = 1
    /\ Len(config.Tianwan1) = 2
    /\ Len(BindingsOf(1)) >= 4

====
